---- MODULE Spec2Model ----
(***************************************************************************)
(* PropertyRegistry (contracts/lib/src/lib.rs): the property registry, its *)
(* ownership index, the approval delegation, the compliance gate and the   *)
(* escrow ledger, as a state machine with one action per contract message. *)
(***************************************************************************)
EXTENDS Integers, Sequences, FiniteSets, TLC

\* ------------------------------------------------------------------ bounds
\* register_property is not taken once MaxProperties properties exist,
\* create_escrow once MaxEscrows escrows exist, and no message that emits an
\* event once MaxEvents events are out
MaxProperties == 2
MaxEscrows == 2
MaxEvents == 4

\* ------------------------------------------------------------- input sets
None == "None"
Accounts == {"alice", "bob", "charlie"}
RegistryAddrs == {"registry"}
Locations == {"", "123 Main St"}
Timestamps == {0}
Amounts == {500}
\* what the cross-contract call to is_compliant can do: answer, or fail
OracleAnswers == {"true", "false", "fail"}
\* "none": the oracle is not called
Answers == OracleAnswers \cup {"none"}

VARIABLES
    properties,          \* Mapping<u64, PropertyInfo>
    owner_properties,    \* Mapping<AccountId, Vec<u64>>
    property_count,      \* u64
    compliance_registry, \* Option<AccountId>
    owner,               \* the account that constructed the contract
    escrows,             \* Mapping<u64, EscrowInfo>
    escrow_count,        \* u64
    approvals,           \* property id -> Option<AccountId>
    event_count,         \* how many events the contract has emitted so far
    events,              \* the events emitted by the message being answered
    last                 \* the last message: who called what, and its result

vars == <<properties, owner_properties, property_count, compliance_registry,
          owner, escrows, escrow_count, approvals, event_count,
          events, last>>

\* the storage of the contract
store == <<properties, owner_properties, property_count, compliance_registry,
           owner, escrows, escrow_count, approvals>>

\* the ids a caller can name: the ids in use and one that is not
PropertyIds == 1..(property_count + 1)
EscrowIds == 1..(escrow_count + 1)

\* ---------------------------------------------------------------- helpers
\* Vec::retain(|&id| id != property_id)
Retain(v, property_id) == SelectSeq(v, LAMBDA id : id # property_id)

Contains(v, property_id) == \E i \in 1..Len(v) : v[i] = property_id

Occurrences(v, property_id) == Cardinality({i \in 1..Len(v) : v[i] = property_id})

\* Mapping::get(&owner).unwrap_or_default()
get_owner_properties(account) == owner_properties[account]

get_property(property_id) ==
    IF property_id \in DOMAIN properties THEN properties[property_id] ELSE None

get_escrow(escrow_id) ==
    IF escrow_id \in DOMAIN escrows THEN escrows[escrow_id] ELSE None

get_approved(property_id) ==
    IF property_id \in DOMAIN approvals THEN approvals[property_id] ELSE None

\* emit_event: the events of this message, and the count of all events
Emit(evs) ==
    /\ event_count < MaxEvents
    /\ events' = evs
    /\ event_count' = event_count + Len(evs)

\* a message that returns an error writes nothing and emits nothing
Rejected == UNCHANGED <<store, event_count, events>>

\* a message and its outcome: the message, its caller, the id it names, the
\* result, the id it returns, and what the compliance oracle answered
Call(op, caller, id, res, ret, oracle) ==
    [op |-> op, caller |-> caller, id |-> id, res |-> res, ret |-> ret,
     oracle |-> oracle]

\* no message is being answered: the contract waits for the next one
Idle == Call("idle", None, 0, "none", 0, "none")

\* ------------------------------------------------------------ constructors
\* new() and new_with_compliance(compliance_registry), called by alice as in
\* the tests of the contract
Init ==
    /\ properties = <<>>
    /\ owner_properties = [a \in Accounts |-> <<>>]
    /\ property_count = 0
    /\ compliance_registry \in {None} \cup RegistryAddrs
    /\ owner = "alice"
    /\ escrows = <<>>
    /\ escrow_count = 0
    /\ approvals = <<>>
    /\ event_count = 0
    /\ events = <<>>
    /\ last = Idle

\* --------------------------------------------------------- compliance gate
\* check_compliance: no registry configured: Ok without a call; otherwise the
\* call is made with invoke(), which panics when the call fails.
check_compliance(account, answer) ==
    IF compliance_registry # None
    THEN IF answer = "fail" THEN "Trap"
         ELSE IF answer = "true" THEN "Ok" ELSE "NotCompliant"
    ELSE "Ok"

\* what the oracle would answer to the call of this message: it has an answer
\* only when a registry is configured
gate_answers ==
    IF compliance_registry # None THEN OracleAnswers ELSE {"none"}

\* what the oracle was asked: nothing when the message returns before the gate
asked(reached, answer) == IF reached THEN answer ELSE "none"

\* ------------------------------------------------------- register_property
register_result(caller, answer) == check_compliance(caller, answer)

\* the id taken before the increment
register_property_id_before_increment == property_count

\* self.property_count += 1; let property_id = self.property_count
register_property_id == property_count + 1

register_owner_properties(caller, property_id) ==
    [owner_properties EXCEPT ![caller] = Append(@, property_id)]

register_property(caller, location, now, answer) ==
    LET res == register_result(caller, answer)
        property_id == register_property_id
        property_info == [id |-> property_id, owner |-> caller,
                          metadata |-> [location |-> location],
                          registered_at |-> now]
    IN  /\ answer \in gate_answers
        /\ IF res = "Ok"
           THEN /\ property_count < MaxProperties
                /\ property_count' = property_count + 1
                /\ properties' = (property_id :> property_info) @@ properties
                /\ owner_properties' = register_owner_properties(caller, property_id)
                /\ Emit(<< [kind |-> "PropertyRegistered",
                                             property_id |-> property_id,
                                             owner |-> caller] >>)
                /\ UNCHANGED <<compliance_registry, owner, escrows, escrow_count,
                               approvals>>
           ELSE Rejected
        /\ last' = Call("register_property", caller, 0, res,
                        IF res = "Ok" THEN property_id ELSE 0, answer)

\* ------------------------------------------------------- transfer_property
\* transfer_property with the compliance gate ahead of the owner check
transfer_result_gate_first(caller, property_id, to, answer) ==
    IF property_id \notin DOMAIN properties THEN "PropertyNotFound"
    ELSE IF check_compliance(to, answer) # "Ok" THEN check_compliance(to, answer)
    ELSE IF properties[property_id].owner # caller THEN "Unauthorized"
    ELSE "Ok"

\* the checks of transfer_property, in the order of the code
transfer_result(caller, property_id, to, answer) ==
    IF property_id \notin DOMAIN properties THEN "PropertyNotFound"
    ELSE IF properties[property_id].owner # caller THEN "Unauthorized"
    ELSE check_compliance(to, answer)

\* whether transfer_property gets as far as the compliance gate
transfer_reaches_gate(caller, property_id) ==
    /\ property_id \in DOMAIN properties
    /\ properties[property_id].owner = caller

\* transfer_property without the retain: the id stays on the old owner's list
transfer_owner_properties_no_retain(caller, property_id, to) ==
    [owner_properties EXCEPT ![to] = Append(@, property_id)]

\* transfer_property that reads the recipient's list before the caller's list
\* is written back
transfer_owner_properties_stale_read(caller, property_id, to) ==
    LET current_owner_props == Retain(owner_properties[caller], property_id)
        removed == [owner_properties EXCEPT ![caller] = current_owner_props]
        new_owner_props == Append(owner_properties[to], property_id)
    IN  [removed EXCEPT ![to] = new_owner_props]

\* retain on the caller's list, then push on the recipient's list (read after
\* the first insert, so a transfer to oneself ends with the id listed once)
transfer_owner_properties(caller, property_id, to) ==
    LET current_owner_props == Retain(owner_properties[caller], property_id)
        removed == [owner_properties EXCEPT ![caller] = current_owner_props]
        new_owner_props == Append(removed[to], property_id)
    IN  [removed EXCEPT ![to] = new_owner_props]

transfer_properties(property_id, to) ==
    [properties EXCEPT ![property_id].owner = to]

\* the approval map after a transfer: transfer_property does not write it
transfer_approvals(property_id) == approvals

transfer_event(caller, property_id, to) ==
    [kind |-> "PropertyTransferred", property_id |-> property_id,
     from |-> caller, to |-> to]

transfer_property(caller, property_id, to, answer) ==
    LET res == transfer_result(caller, property_id, to, answer)
    IN  /\ answer \in gate_answers
        /\ IF res = "Ok"
           THEN /\ owner_properties' = transfer_owner_properties(caller, property_id, to)
                /\ properties' = transfer_properties(property_id, to)
                /\ approvals' = transfer_approvals(property_id)
                /\ Emit(<< transfer_event(caller, property_id, to) >>)
                /\ UNCHANGED <<property_count, compliance_registry, owner,
                               escrows, escrow_count>>
           ELSE Rejected
        /\ last' = Call("transfer_property", caller, property_id, res, 0,
                        asked(transfer_reaches_gate(caller, property_id), answer))

\* ---------------------------------------------------------- update_metadata
\* update_metadata without the validation of the location
update_metadata_result_no_validation(caller, property_id, location) ==
    IF property_id \notin DOMAIN properties THEN "PropertyNotFound"
    ELSE IF properties[property_id].owner # caller THEN "Unauthorized"
    ELSE "Ok"

update_metadata_result(caller, property_id, location) ==
    IF property_id \notin DOMAIN properties THEN "PropertyNotFound"
    ELSE IF properties[property_id].owner # caller THEN "Unauthorized"
    ELSE IF location = "" THEN "InvalidMetadata"
    ELSE "Ok"

update_metadata(caller, property_id, location) ==
    LET res == update_metadata_result(caller, property_id, location)
    IN  /\ IF res = "Ok"
           THEN /\ properties' = [properties EXCEPT
                                    ![property_id].metadata = [location |-> location]]
                /\ Emit(<< [kind |-> "PropertyMetadataUpdated",
                                             property_id |-> property_id] >>)
                /\ UNCHANGED <<owner_properties, property_count, compliance_registry,
                               owner, escrows, escrow_count, approvals>>
           ELSE Rejected
        /\ last' = Call("update_metadata", caller, property_id, res, 0, "none")

\* ------------------------------------------------------------------ approve
\* approve that the approved delegate may call too
approve_result_delegate_allowed(caller, property_id) ==
    IF property_id \notin DOMAIN properties THEN "PropertyNotFound"
    ELSE IF properties[property_id].owner # caller
            /\ get_approved(property_id) # caller THEN "Unauthorized"
    ELSE "Ok"

approve_result(caller, property_id) ==
    IF property_id \notin DOMAIN properties THEN "PropertyNotFound"
    ELSE IF properties[property_id].owner # caller THEN "Unauthorized"
    ELSE "Ok"

\* approve that sets a delegate but does not clear one
approve_approvals_set_only(property_id, to) ==
    IF to = None THEN approvals ELSE (property_id :> to) @@ approvals

\* Some(account) sets the delegate of the property, None removes the entry
approve_approvals(property_id, to) ==
    IF to = None
    THEN [p \in DOMAIN approvals \ {property_id} |-> approvals[p]]
    ELSE (property_id :> to) @@ approvals

approve(caller, property_id, to) ==
    LET res == approve_result(caller, property_id)
    IN  /\ IF res = "Ok"
           THEN /\ approvals' = approve_approvals(property_id, to)
                /\ Emit(<< [kind |-> "Approval",
                                             property_id |-> property_id,
                                             owner |-> caller, approved |-> to] >>)
                /\ UNCHANGED <<properties, owner_properties, property_count,
                               compliance_registry, owner, escrows, escrow_count>>
           ELSE Rejected
        /\ last' = Call("approve", caller, property_id, res, 0, "none")

\* -------------------------------------------------- set_compliance_registry
\* set_compliance_registry without the caller check
set_compliance_registry_result_unchecked(caller) == "Ok"

set_compliance_registry_result(caller) ==
    IF caller # owner THEN "Unauthorized" ELSE "Ok"

set_compliance_registry(caller, addr) ==
    LET res == set_compliance_registry_result(caller)
    IN  /\ IF res = "Ok"
           THEN /\ compliance_registry' = addr
                /\ UNCHANGED <<properties, owner_properties, property_count, owner,
                               escrows, escrow_count, approvals, event_count,
                               events>>
           ELSE Rejected
        /\ last' = Call("set_compliance_registry", caller, 0, res, 0, "none")

\* the pure read of the setting
get_compliance_registry == compliance_registry

\* ------------------------------------------------------------ create_escrow
\* create_escrow that the approved delegate may call too
create_escrow_result_delegate_allowed(caller, property_id) ==
    IF property_id \notin DOMAIN properties THEN "PropertyNotFound"
    ELSE IF properties[property_id].owner # caller
            /\ get_approved(property_id) # caller THEN "Unauthorized"
    ELSE "Ok"

create_escrow_result(caller, property_id) ==
    IF property_id \notin DOMAIN properties THEN "PropertyNotFound"
    ELSE IF properties[property_id].owner # caller THEN "Unauthorized"
    ELSE "Ok"

create_escrow(caller, property_id, amount) ==
    LET res == create_escrow_result(caller, property_id)
        escrow_id == escrow_count + 1
        escrow_info == [id |-> escrow_id, property_id |-> property_id,
                        buyer |-> caller,
                        seller |-> properties[property_id].owner,
                        amount |-> amount, released |-> FALSE]
    IN  /\ IF res = "Ok"
           THEN /\ escrow_count < MaxEscrows
                /\ escrow_count' = escrow_id
                /\ escrows' = (escrow_id :> escrow_info) @@ escrows
                /\ Emit(<< [kind |-> "EscrowCreated",
                                             escrow_id |-> escrow_id,
                                             property_id |-> property_id,
                                             buyer |-> caller,
                                             seller |-> properties[property_id].owner,
                                             amount |-> amount] >>)
                /\ UNCHANGED <<properties, owner_properties, property_count,
                               compliance_registry, owner, approvals>>
           ELSE Rejected
        /\ last' = Call("create_escrow", caller, property_id, res,
                        IF res = "Ok" THEN escrow_id ELSE 0, "none")

\* ----------------------------------------------------------- release_escrow
\* whether release_escrow gets as far as the embedded transfer_property
release_reaches_transfer(caller, escrow_id) ==
    /\ escrow_id \in DOMAIN escrows
    /\ ~escrows[escrow_id].released
    /\ escrows[escrow_id].buyer = caller

release_reaches_gate(caller, escrow_id) ==
    /\ release_reaches_transfer(caller, escrow_id)
    /\ transfer_reaches_gate(caller, escrows[escrow_id].property_id)

\* release_escrow without the `?`: the error of the transfer is dropped
release_escrow_result_no_propagation(caller, escrow_id, answer) ==
    IF escrow_id \notin DOMAIN escrows THEN "EscrowNotFound"
    ELSE IF escrows[escrow_id].released THEN "EscrowAlreadyReleased"
    ELSE IF escrows[escrow_id].buyer # caller THEN "Unauthorized"
    ELSE "Ok"

\* the checks of release_escrow in the order of the code; the error of the
\* embedded transfer_property is returned with `?`
release_escrow_result(caller, escrow_id, answer) ==
    IF escrow_id \notin DOMAIN escrows THEN "EscrowNotFound"
    ELSE IF escrows[escrow_id].released THEN "EscrowAlreadyReleased"
    ELSE IF escrows[escrow_id].buyer # caller THEN "Unauthorized"
    ELSE transfer_result(caller, escrows[escrow_id].property_id,
                         escrows[escrow_id].buyer, answer)

\* release_escrow that marks the escrow released before the embedded transfer:
\* a failing transfer leaves the flag written
release_escrow_marks_before_transfer(caller, escrow_id, answer) ==
    LET res == release_escrow_result(caller, escrow_id, answer)
        escrow == escrows[escrow_id]
    IN  /\ answer \in gate_answers
        /\ IF res = "Ok"
           THEN /\ owner_properties' =
                       transfer_owner_properties(caller, escrow.property_id, escrow.buyer)
                /\ properties' = transfer_properties(escrow.property_id, escrow.buyer)
                /\ approvals' = transfer_approvals(escrow.property_id)
                /\ escrows' = [escrows EXCEPT ![escrow_id].released = TRUE]
                /\ Emit(
                       << transfer_event(caller, escrow.property_id, escrow.buyer),
                          [kind |-> "EscrowReleased", escrow_id |-> escrow_id] >>)
                /\ UNCHANGED <<property_count, compliance_registry, owner,
                               escrow_count>>
           ELSE IF release_reaches_transfer(caller, escrow_id)
           THEN /\ escrows' = [escrows EXCEPT ![escrow_id].released = TRUE]
                /\ UNCHANGED <<properties, owner_properties, property_count,
                               compliance_registry, owner, escrow_count, approvals,
                               event_count, events>>
           ELSE Rejected
        /\ last' = Call("release_escrow", caller, escrow_id, res, 0,
                        asked(release_reaches_gate(caller, escrow_id), answer))

\* release_escrow without the write of the released flag
release_escrows_not_marked(escrow_id) == escrows

release_escrows(escrow_id) ==
    [escrows EXCEPT ![escrow_id].released = TRUE]

release_escrow(caller, escrow_id, answer) ==
    LET res == release_escrow_result(caller, escrow_id, answer)
        escrow == escrows[escrow_id]
    IN  /\ answer \in gate_answers
        /\ IF res = "Ok"
           THEN /\ owner_properties' =
                       transfer_owner_properties(caller, escrow.property_id, escrow.buyer)
                /\ properties' = transfer_properties(escrow.property_id, escrow.buyer)
                /\ approvals' = transfer_approvals(escrow.property_id)
                /\ escrows' = release_escrows(escrow_id)
                /\ Emit(
                       << transfer_event(caller, escrow.property_id, escrow.buyer),
                          [kind |-> "EscrowReleased", escrow_id |-> escrow_id] >>)
                /\ UNCHANGED <<property_count, compliance_registry, owner,
                               escrow_count>>
           ELSE Rejected
        /\ last' = Call("release_escrow", caller, escrow_id, res, 0,
                        asked(release_reaches_gate(caller, escrow_id), answer))

\* how get_escrow shows the state of an escrow: the released flag of EscrowInfo
escrow_state(escrow) == IF escrow.released THEN "Released" ELSE "Created"

\* ------------------------------------------------------------ refund_escrow
\* refund_escrow with the seller check ahead of the released check
refund_escrow_result_seller_first(caller, escrow_id) ==
    IF escrow_id \notin DOMAIN escrows THEN "EscrowNotFound"
    ELSE IF escrows[escrow_id].seller # caller THEN "Unauthorized"
    ELSE IF escrows[escrow_id].released THEN "EscrowAlreadyReleased"
    ELSE "Ok"

refund_escrow_result(caller, escrow_id) ==
    IF escrow_id \notin DOMAIN escrows THEN "EscrowNotFound"
    ELSE IF escrows[escrow_id].released THEN "EscrowAlreadyReleased"
    ELSE IF escrows[escrow_id].seller # caller THEN "Unauthorized"
    ELSE "Ok"

\* refund_escrow that also rewrites the seller as the property's current owner
refund_escrows_seller_refreshed(escrow_id) ==
    [escrows EXCEPT ![escrow_id].released = TRUE,
                    ![escrow_id].seller =
                        properties[escrows[escrow_id].property_id].owner]

refund_escrows(escrow_id) ==
    [escrows EXCEPT ![escrow_id].released = TRUE]

refund_escrow(caller, escrow_id) ==
    LET res == refund_escrow_result(caller, escrow_id)
    IN  /\ IF res = "Ok"
           THEN /\ escrows' = refund_escrows(escrow_id)
                /\ Emit(<< [kind |-> "EscrowRefunded",
                                             escrow_id |-> escrow_id] >>)
                /\ UNCHANGED <<properties, owner_properties, property_count,
                               compliance_registry, owner, escrow_count, approvals>>
           ELSE Rejected
        /\ last' = Call("refund_escrow", caller, escrow_id, res, 0, "none")

\* ------------------------------------------------------------------- Return
\* the result of the message has gone back to its caller; the contract takes
\* the next message
Return ==
    /\ last # Idle
    /\ last' = Idle
    /\ events' = <<>>
    /\ UNCHANGED <<store, event_count>>

\* messages are executed one at a time; any account sends any message, with
\* any arguments
Next ==
    \/ /\ last = Idle
       /\ \E caller \in Accounts, location \in Locations, now \in Timestamps,
             answer \in Answers :
             register_property(caller, location, now, answer)
    \/ /\ last = Idle
       /\ \E caller \in Accounts, property_id \in PropertyIds, to \in Accounts,
             answer \in Answers :
             transfer_property(caller, property_id, to, answer)
    \/ /\ last = Idle
       /\ \E caller \in Accounts, property_id \in PropertyIds,
             location \in Locations :
             update_metadata(caller, property_id, location)
    \/ /\ last = Idle
       /\ \E caller \in Accounts, property_id \in PropertyIds,
             to \in Accounts \cup {None} :
             approve(caller, property_id, to)
    \/ /\ last = Idle
       /\ \E caller \in Accounts, addr \in RegistryAddrs :
             set_compliance_registry(caller, addr)
    \/ /\ last = Idle
       /\ \E caller \in Accounts, property_id \in PropertyIds, amount \in Amounts :
             create_escrow(caller, property_id, amount)
    \/ /\ last = Idle
       /\ \E caller \in Accounts, escrow_id \in EscrowIds, answer \in Answers :
             release_escrow(caller, escrow_id, answer)
    \/ /\ last = Idle
       /\ \E caller \in Accounts, escrow_id \in EscrowIds :
             refund_escrow(caller, escrow_id)
    \/ Return

Spec == Init /\ [][Next]_vars

\* =================================================================== claims
\* a step that writes no storage and emits no event
NoEffect ==
    UNCHANGED <<properties, owner_properties, property_count, compliance_registry,
                owner, escrows, escrow_count, approvals, event_count, events>>

\* get_approved(property_id) after the step
ApprovedAfter(property_id) ==
    IF property_id \in DOMAIN approvals' THEN approvals'[property_id] ELSE None

\* C1: in every reachable state every property is listed in the ownership
\* index of its owner, and in the list of no other account.
C1_OwnerIndexMatchesRecord ==
    \A p \in DOMAIN properties : \A a \in Accounts :
        Contains(get_owner_properties(a), p) <=> (a = properties[p].owner)

\* a second property has just changed hands
C1_Witness ==
    /\ last.op = "transfer_property"
    /\ last.res = "Ok"
    /\ property_count = 2
    /\ properties[last.id].owner # last.caller

\* C2: a transfer_property on an existing id is rejected with Unauthorized if
\* and only if the caller is neither the owner nor the approved delegate; a
\* successful transfer makes `to` the owner and a rejected one leaves the owner.
C2_TransferByOwnerOrDelegate ==
    [][ (last'.op = "transfer_property" /\ last'.id \in DOMAIN properties) =>
          LET p == last'.id
              c == last'.caller
              authorized == c = properties[p].owner \/ c = get_approved(p)
          IN  /\ (last'.res = "Unauthorized") <=> ~authorized
              /\ last'.res = "Unauthorized" =>
                     properties'[p].owner = properties[p].owner
              /\ \A to \in Accounts, answer \in Answers :
                     (transfer_property(c, p, to, answer) /\ last'.res = "Ok")
                         => properties'[p].owner = to ]_vars

\* C3: after every successful transfer of a property, by transfer_property or
\* inside release_escrow, get_approved of that property is None (so that a
\* delegate of the previous owner cannot transfer it).
C3_TransferClearsApproval ==
    [][ /\ (last'.op = "transfer_property" /\ last'.res = "Ok")
            => ApprovedAfter(last'.id) = None
        /\ (last'.op = "release_escrow" /\ last'.res = "Ok")
            => ApprovedAfter(escrows[last'.id].property_id) = None ]_vars

\* C4: an escrow is Created, Released or Refunded; its state changes only from
\* Created to Released, by a successful release_escrow, or from Created to
\* Refunded, by a successful refund_escrow; a Released or Refunded escrow never
\* changes again, and get_escrow tells Released from Refunded.
C4_EscrowStateMachine ==
    [][ \A e \in DOMAIN escrows :
          /\ e \in DOMAIN escrows'
          /\ escrow_state(escrows[e]) \in {"Created", "Released", "Refunded"}
          /\ escrow_state(escrows[e]) # "Created" => escrows'[e] = escrows[e]
          /\ escrows'[e] # escrows[e] =>
                /\ escrow_state(escrows[e]) = "Created"
                /\ last'.res = "Ok"
                /\ last'.id = e
                /\ \/ /\ last'.op = "release_escrow"
                      /\ escrow_state(escrows'[e]) = "Released"
                   \/ /\ last'.op = "refund_escrow"
                      /\ escrow_state(escrows'[e]) = "Refunded" ]_vars

\* C5: release_escrow and refund_escrow on an escrow that was released or
\* refunded fail with EscrowAlreadyReleased for every caller, and change nothing.
C5_TerminalEscrowRejectsAll ==
    [][ ( /\ last'.op \in {"release_escrow", "refund_escrow"}
          /\ last'.id \in DOMAIN escrows
          /\ escrows[last'.id].released )
        => (last'.res = "EscrowAlreadyReleased" /\ NoEffect) ]_vars

\* a caller who is neither buyer nor seller was told EscrowAlreadyReleased
C5_Witness ==
    /\ last.op \in {"release_escrow", "refund_escrow"}
    /\ last.res = "EscrowAlreadyReleased"
    /\ last.caller # escrows[last.id].buyer
    /\ last.caller # escrows[last.id].seller

\* C6: a release_escrow by the buyer of a Created escrow whose embedded transfer
\* fails (the buyer no longer owns the property, or the oracle rejects the
\* recipient) returns the error of the transfer, writes nothing, leaves the
\* escrow Created, and the seller can still refund it.
C6_ReleaseAllOrNothing ==
    [][ ( /\ last'.op = "release_escrow"
          /\ last'.id \in DOMAIN escrows
          /\ ~escrows[last'.id].released
          /\ escrows[last'.id].buyer = last'.caller
          /\ \/ properties[escrows[last'.id].property_id].owner # last'.caller
             \/ last'.oracle = "false" )
        => LET escrow == escrows[last'.id]
           IN  /\ last'.res =
                     IF properties[escrow.property_id].owner # last'.caller
                     THEN "Unauthorized" ELSE "NotCompliant"
               /\ NoEffect
               /\ escrow_state(escrows'[last'.id]) = "Created"
               /\ escrows'[last'.id].seller = escrow.seller ]_vars

\* the buyer's release failed because the property had been transferred away
C6_Witness ==
    /\ last.op = "release_escrow"
    /\ last.res = "Unauthorized"
    /\ last.id \in DOMAIN escrows
    /\ ~escrows[last.id].released
    /\ escrows[last.id].buyer = last.caller
    /\ properties[escrows[last.id].property_id].owner # last.caller

\* C7: after a successful release_escrow the escrow is Released, the caller was
\* its buyer, and the buyer owns the property and is the only account whose
\* list holds it.
C7_ReleaseMakesBuyerOwner ==
    (last.op = "release_escrow" /\ last.res = "Ok") =>
        LET escrow == escrows[last.id]
        IN  /\ escrow_state(escrow) = "Released"
            /\ last.caller = escrow.buyer
            /\ properties[escrow.property_id].owner = escrow.buyer
            /\ \A a \in Accounts :
                   Contains(get_owner_properties(a), escrow.property_id)
                       <=> (a = escrow.buyer)

C7_Witness ==
    /\ last.op = "release_escrow"
    /\ last.res = "Ok"
    /\ events = << transfer_event(last.caller, escrows[last.id].property_id,
                                  escrows[last.id].buyer),
                   [kind |-> "EscrowReleased", escrow_id |-> last.id] >>

\* C8: the ids in use are 1..property_count; a successful register_property
\* returns property_count + 1, an id not in use, and adds one to
\* property_count; no other step, a rejected registration included, changes
\* property_count.
C8_MonotonicPropertyIds ==
    [][ /\ DOMAIN properties = 1..property_count
        /\ IF last'.op = "register_property" /\ last'.res = "Ok"
           THEN /\ last'.ret = property_count + 1
                /\ last'.ret >= 1
                /\ last'.ret \notin DOMAIN properties
                /\ property_count' = last'.ret
                /\ DOMAIN properties' = 1..last'.ret
                /\ properties'[last'.ret].id = last'.ret
           ELSE /\ property_count' = property_count
                /\ DOMAIN properties' = DOMAIN properties ]_vars

\* the second registration returned 2
C8_Witness ==
    /\ last.op = "register_property"
    /\ last.res = "Ok"
    /\ last.ret = 2
    /\ property_count = 2

\* C9: with an oracle configured that answers false for `to`, transfer_property
\* by the owner or by the approved delegate fails with NotCompliant and
\* changes nothing.
C9_NonCompliantRecipientRejected ==
    [][ last'.op = "transfer_property" =>
          \A c \in Accounts, p \in DOMAIN properties, to \in Accounts :
              ( /\ compliance_registry # None
                /\ c = properties[p].owner \/ c = get_approved(p)
                /\ transfer_property(c, p, to, "false") )
              => (last'.res = "NotCompliant" /\ NoEffect) ]_vars

\* C10: when the call to the configured oracle fails, register_property and
\* transfer_property return ComplianceCheckFailed and change nothing; with no
\* oracle configured they return neither NotCompliant nor ComplianceCheckFailed.
C10_OracleFailureIsAnError ==
    [][ last'.op \in {"register_property", "transfer_property"} =>
          /\ last'.oracle = "fail" =>
                 (last'.res = "ComplianceCheckFailed" /\ NoEffect)
          /\ compliance_registry = None =>
                 last'.res \notin {"NotCompliant", "ComplianceCheckFailed"} ]_vars

\* C11: set_compliance_registry succeeds if and only if the caller is the
\* account that constructed the contract; any other caller gets Unauthorized
\* and get_compliance_registry returns what it returned before; no step
\* changes the deployer account.
C11_OnlyDeployerSetsRegistry ==
    [][ /\ owner' = owner
        /\ last'.op = "set_compliance_registry" =>
              /\ (last'.res = "Ok") <=> (last'.caller = owner)
              /\ last'.caller # owner =>
                    /\ last'.res = "Unauthorized"
                    /\ get_compliance_registry' = get_compliance_registry
                    /\ NoEffect
              /\ last'.res = "Ok" => get_compliance_registry' \in RegistryAddrs ]_vars

\* an account other than the deployer tried to set a registry where none is set
C11_Witness ==
    /\ last.op = "set_compliance_registry"
    /\ last.res = "Unauthorized"
    /\ last.caller # owner
    /\ get_compliance_registry = None
    /\ property_count > 0

\* C12: update_metadata by the owner with an empty location fails with
\* InvalidMetadata and leaves the stored metadata; with a non-empty location it
\* succeeds and the stored metadata is the given one, with id, owner and
\* registered_at unchanged; register_property accepts an empty location.
C12_MetadataValidation ==
    [][ /\ \A c \in Accounts, p \in DOMAIN properties, loc \in Locations :
              ( /\ last'.op = "update_metadata"
                /\ c = properties[p].owner
                /\ update_metadata(c, p, loc) ) =>
                  IF loc = ""
                  THEN /\ last'.res = "InvalidMetadata"
                       /\ NoEffect
                       /\ properties'[p].metadata = properties[p].metadata
                  ELSE /\ last'.res = "Ok"
                       /\ properties'[p].metadata = [location |-> loc]
                       /\ properties'[p].id = properties[p].id
                       /\ properties'[p].owner = properties[p].owner
                       /\ properties'[p].registered_at = properties[p].registered_at
        /\ \A c \in Accounts, now \in Timestamps, answer \in {"true", "none"} :
              (last'.op = "register_property" /\ register_property(c, "", now, answer)) =>
                  /\ last'.res = "Ok"
                  /\ properties'[last'.ret].metadata = [location |-> ""] ]_vars

\* the owner's update with an empty location was rejected, the stored location
\* stays, and another property was registered with an empty location
C12_Witness ==
    /\ last.op = "update_metadata"
    /\ last.res = "InvalidMetadata"
    /\ properties[last.id].owner = last.caller
    /\ properties[last.id].metadata.location = "123 Main St"
    /\ \E p \in DOMAIN properties : properties[p].metadata.location = ""

\* C13: update_metadata and approve on an existing property succeed only for
\* the current owner; any other caller, the approved delegate of the property
\* included, gets Unauthorized, and neither the metadata nor the approval of
\* the property changes.
C13_OwnerOnlyOperations ==
    [][ ( /\ last'.op \in {"update_metadata", "approve"}
          /\ last'.id \in DOMAIN properties )
        => /\ last'.res = "Ok" => last'.caller = properties[last'.id].owner
           /\ last'.caller # properties[last'.id].owner =>
                 /\ last'.res = "Unauthorized"
                 /\ properties'[last'.id].metadata = properties[last'.id].metadata
                 /\ ApprovedAfter(last'.id) = get_approved(last'.id)
                 /\ NoEffect ]_vars

\* the approved delegate of a property called approve on it and was rejected
C13_Witness ==
    /\ last.op = "approve"
    /\ last.res = "Unauthorized"
    /\ last.id \in DOMAIN properties
    /\ last.caller = get_approved(last.id)
    /\ last.caller # properties[last.id].owner

\* C14: every successful approve(id, d) leaves get_approved(id) = d, Some(account)
\* replacing the previous delegate and None clearing it, and emits exactly one
\* approval event, which names d, also when d is None.
C14_ApproveSetsAndNotifies ==
    [][ (last'.op = "approve" /\ last'.res = "Ok") =>
        \A c \in Accounts, p \in PropertyIds, d \in Accounts \cup {None} :
          approve(c, p, d) =>
              /\ ApprovedAfter(p) = d
              /\ \A q \in DOMAIN properties \ {p} :
                     ApprovedAfter(q) = get_approved(q)
              /\ event_count' = event_count + 1
              /\ Len(events') = 1
              /\ events'[1].kind = "Approval"
              /\ events'[1].property_id = p
              /\ events'[1].approved = d ]_vars

\* the owner cleared the approval of a property and the event says so
C14_Witness ==
    /\ last.op = "approve"
    /\ last.res = "Ok"
    /\ get_approved(last.id) = None
    /\ Len(events) = 1
    /\ events[1].kind = "Approval"
    /\ events[1].approved = None
    /\ event_count >= 3

\* C15: a message that returns an error leaves the whole storage as it was
\* (property records, ownership index, approvals, escrow records, both
\* counters, the registry setting) and emits no event.
C15_ErrorsChangeNothing ==
    [][ last'.res \in {"PropertyNotFound", "Unauthorized", "InvalidMetadata",
                       "NotCompliant", "ComplianceCheckFailed", "EscrowNotFound",
                       "EscrowAlreadyReleased"}
        => /\ NoEffect
           /\ events' = <<>> ]_vars

\* the transfer inside release_escrow was rejected by the oracle
C15_Witness ==
    /\ last.op = "release_escrow"
    /\ last.res = "NotCompliant"
    /\ last.oracle = "false"
    /\ ~escrows[last.id].released
    /\ events = <<>>

\* C16: every PropertyTransferred event carries as `from` the owner recorded
\* for the property before the transfer and as `to` the owner recorded after
\* it; a successful transfer_property and a successful release_escrow emit
\* one; and a transfer by the approved delegate, which passes the gate, emits
\* one whose `from` is the old owner, not the delegate.
C16_TransferEventNamesOldOwner ==
    [][ /\ \A i \in 1..Len(events') :
              events'[i].kind = "PropertyTransferred" =>
                  /\ events'[i].property_id \in DOMAIN properties
                  /\ events'[i].from = properties[events'[i].property_id].owner
                  /\ events'[i].to = properties'[events'[i].property_id].owner
        /\ (last'.op = "transfer_property" /\ last'.res = "Ok") =>
              /\ Len(events') = 1
              /\ events'[1].kind = "PropertyTransferred"
              /\ events'[1].property_id = last'.id
        /\ (last'.op = "release_escrow" /\ last'.res = "Ok") =>
              /\ Len(events') = 2
              /\ events'[1].kind = "PropertyTransferred"
              /\ events'[1].property_id = escrows[last'.id].property_id
        /\ last'.op = "transfer_property" =>
              \A c \in Accounts, p \in DOMAIN properties, to \in Accounts,
                 answer \in {"true", "none"} :
                  (c = get_approved(p) /\ transfer_property(c, p, to, answer)) =>
                      /\ Len(events') = 1
                      /\ events'[1] = [kind |-> "PropertyTransferred",
                                       property_id |-> p,
                                       from |-> properties[p].owner,
                                       to |-> to] ]_vars

\* C17: create_escrow fails with PropertyNotFound on an unknown property and
\* with Unauthorized for a caller who is not its owner, the approved delegate
\* included; on success it returns escrow_count + 1, an id never used before,
\* and stores under it a record with that id, the property, the amount,
\* seller = the owner, buyer = the caller, not released; it changes no other
\* escrow, no property record, no index entry and no approval; no other step
\* changes escrow_count.
C17_CreateEscrow ==
    [][ /\ DOMAIN escrows = 1..escrow_count
        /\ ~(last'.op = "create_escrow" /\ last'.res = "Ok") =>
              escrow_count' = escrow_count
        /\ last'.op = "create_escrow" =>
              \A c \in Accounts, p \in PropertyIds, amount \in Amounts :
                  create_escrow(c, p, amount) =>
                      /\ last'.res =
                            IF p \notin DOMAIN properties THEN "PropertyNotFound"
                            ELSE IF c # properties[p].owner THEN "Unauthorized"
                            ELSE "Ok"
                      /\ last'.res = "Ok" =>
                            /\ last'.ret = escrow_count + 1
                            /\ last'.ret >= 1
                            /\ last'.ret \notin DOMAIN escrows
                            /\ escrow_count' = last'.ret
                            /\ DOMAIN escrows' = 1..last'.ret
                            /\ escrows'[last'.ret] =
                                  [id |-> last'.ret, property_id |-> p,
                                   buyer |-> c, seller |-> properties[p].owner,
                                   amount |-> amount, released |-> FALSE]
                            /\ escrow_state(escrows'[last'.ret]) = "Created"
                            /\ \A e \in DOMAIN escrows : escrows'[e] = escrows[e]
                            /\ UNCHANGED <<properties, owner_properties, approvals>> ]_vars

\* the second escrow was created, on a property that has an approved delegate
C17_Witness ==
    /\ last.op = "create_escrow"
    /\ last.res = "Ok"
    /\ last.ret = 2
    /\ escrow_count = 2
    /\ get_approved(last.id) \in Accounts
    /\ escrows[2].seller = properties[last.id].owner

\* C18: refund_escrow on a Created escrow succeeds if and only if the caller is
\* the seller stored in the escrow, whoever owns the property now; any other
\* caller gets Unauthorized; on success the escrow becomes Refunded, and no
\* property record, index entry or approval changes.
C18_RefundBySellerOnly ==
    [][ ( /\ last'.op = "refund_escrow"
          /\ last'.id \in DOMAIN escrows
          /\ escrow_state(escrows[last'.id]) = "Created" )
        => /\ (last'.res = "Ok") <=> (last'.caller = escrows[last'.id].seller)
           /\ last'.caller # escrows[last'.id].seller =>
                 (last'.res = "Unauthorized" /\ NoEffect)
           /\ last'.res = "Ok" =>
                 /\ escrow_state(escrows'[last'.id]) = "Refunded"
                 /\ UNCHANGED <<properties, owner_properties, approvals>> ]_vars

\* C19: transfer_property checks existence, then authorization, then
\* compliance: an unknown id gives PropertyNotFound and a caller who is
\* neither owner nor approved delegate gives Unauthorized, in both cases
\* without a call to the oracle and whatever the oracle would answer;
\* NotCompliant and ComplianceCheckFailed go to an authorized caller only.
C19_TransferCheckOrder ==
    [][ last'.op = "transfer_property" =>
          LET p == last'.id
              c == last'.caller
              known == p \in DOMAIN properties
              authorized == known /\ (c = properties[p].owner \/ c = get_approved(p))
          IN  /\ ~known => last'.res = "PropertyNotFound"
              /\ (known /\ ~authorized) => last'.res = "Unauthorized"
              /\ ~authorized =>
                    /\ last'.oracle = "none"
                    /\ \A answer \in gate_answers : \E to \in Accounts :
                           transfer_property(c, p, to, answer)
              /\ last'.res \in {"NotCompliant", "ComplianceCheckFailed"} =>
                    (authorized /\ last'.oracle # "none") ]_vars

\* with an oracle configured, a caller who is neither owner nor delegate was
\* told Unauthorized and the oracle was not asked
C19_Witness ==
    /\ last.op = "transfer_property"
    /\ last.res = "Unauthorized"
    /\ last.oracle = "none"
    /\ compliance_registry # None
    /\ last.id \in DOMAIN properties
    /\ last.caller # properties[last.id].owner
    /\ last.caller # get_approved(last.id)

\* C20: in every reachable state each registered property id is listed exactly
\* once over all the ownership lists together, so no list holds an id twice,
\* and the lists hold registered ids only; this after registrations,
\* transfers and releases, a transfer to the current owner included.
C20_IndexListsEachIdOnce ==
    /\ \A p \in DOMAIN properties :
           /\ \A a \in Accounts : Occurrences(get_owner_properties(a), p) <= 1
           /\ Cardinality({a \in Accounts :
                              Contains(get_owner_properties(a), p)}) = 1
    /\ \A a \in Accounts : \A i \in 1..Len(get_owner_properties(a)) :
           get_owner_properties(a)[i] \in DOMAIN properties

\* an owner of two properties transferred the first one to themselves: it is
\* now the last one of their list
C20_Witness ==
    /\ last.op = "transfer_property"
    /\ last.res = "Ok"
    /\ Len(events) = 1
    /\ events[1].from = events[1].to
    /\ get_owner_properties(last.caller) = <<2, 1>>

\* C21: every escrow record has buyer = seller, the account that created it;
\* its id, property_id, buyer, seller and amount never change after creation,
\* whatever is transferred, released or refunded later; so the account that
\* passes the caller check of release_escrow and the account that passes the
\* one of refund_escrow are the same account.
C21_EscrowPartiesFixed ==
    [][ \A e \in DOMAIN escrows :
          /\ escrows[e].id = e
          /\ escrows[e].buyer = escrows[e].seller
          /\ e \in DOMAIN escrows'
          /\ escrows'[e].id = escrows[e].id
          /\ escrows'[e].property_id = escrows[e].property_id
          /\ escrows'[e].buyer = escrows[e].buyer
          /\ escrows'[e].seller = escrows[e].seller
          /\ escrows'[e].amount = escrows[e].amount
          /\ escrows'[e].buyer = escrows'[e].seller
          /\ \A c \in Accounts :
                 release_reaches_transfer(c, e) <=> (refund_escrow_result(c, e) = "Ok") ]_vars

\* the creator of an escrow refunded it after the property had gone to
\* another account
C21_Witness ==
    /\ last.op = "refund_escrow"
    /\ last.res = "Ok"
    /\ escrows[last.id].released
    /\ escrows[last.id].buyer = last.caller
    /\ escrows[last.id].seller = last.caller
    /\ properties[escrows[last.id].property_id].owner # last.caller
====
